---------------------------- MODULE Spec2Model ----------------------------
(***************************************************************************)
(* The go-rst lexer of src/parse/lex.go (lines 1-258): a producer          *)
(* goroutine running the state functions lexStart and lexSection over a    *)
(* flat byte cursor (pos, start, width, line), handing items to a consumer *)
(* (nextItem, driven by collect of src/parse/lex_test.go) through the      *)
(* channel l.items.                                                        *)
(*                                                                         *)
(* The input is a sequence of bytes (numbers 0..255); byte offsets are     *)
(* 0-based as in the Go code, so input[a:b] is SubSeq(input, a+1, b).      *)
(***************************************************************************)
EXTENDS Integers, Sequences, FiniteSets, TLC

VARIABLES
    input,      \* lexer.input: the document, a sequence of bytes
    pos,        \* lexer.pos
    start,      \* lexer.start
    width,      \* lexer.width
    line,       \* lexer.line
    lastPos,    \* lexer.lastPos
    pc,         \* where the producer goroutine (run) is
    ret,        \* the emit call the producer is in: where it returns to
    offer,      \* the item of a sender parked on l.items (<<>> when none)
    buf,        \* the buffer of l.items (always <<>> for capacity 0)
    emitted,    \* history: the items passed to emit, in order
    cpc,        \* where the consumer (collect / nextItem) is
    hand,       \* nextItem's local variable item (<<>> outside nextItem)
    received,   \* collect's slice items: what nextItem returned so far
    sect,       \* the section matcher: its level stack and what it decided
    last        \* the last cursor operation called directly, with its result

cursor == <<pos, start, width, line>>
vars == <<input, pos, start, width, line, lastPos, pc, ret, offer, buf,
          emitted, cpc, hand, received, sect, last>>

---------------------------------------------------------------------------
(* Bounds of the model and the inputs it runs on.                          *)

MaxLen == 4
MaxLines == 4
MaxLiveLen == 3
MaxCursorLen == 3
MaxSections == 4

\* '\n' '\r' '=' 'a' and the two bytes of U+00E0 (0xC3 0xA0)
Alphabet == {10, 13, 61, 97, 195, 160}

RawInputs == UNION {[1..n -> Alphabet] : n \in 0..MaxLen}

\* "", "T", "Tt", "=", "==", "---", and U+4E16 (0xE4 0xB8 0x96) followed by "="
LineCatalog ==
    { <<>>, <<84>>, <<84, 116>>, <<61>>, <<61, 61>>, <<228, 184, 150, 61>> }

RECURSIVE JoinLines(_, _)
JoinLines(ls, lastEol) ==
    IF ls = <<>> THEN <<>>
    ELSE IF Len(ls) = 1 THEN (IF lastEol THEN Head(ls) \o <<10>> ELSE Head(ls))
    ELSE Head(ls) \o <<10>> \o JoinLines(Tail(ls), lastEol)

Documents ==
    { JoinLines(ls, e) :
        ls \in UNION {[1..n -> LineCatalog] : n \in 1..MaxLines},
        e \in BOOLEAN }

Inputs == RawInputs \cup Documents

\* the inputs the cursor operations are called on: the short inputs, and
\* U+4E16 (0xE4 0xB8 0x96) alone, after "a" and before "a"
CursorInputs ==
    {s \in Inputs : Len(s) <= MaxCursorLen}
        \cup {<<228, 184, 150>>, <<97, 228, 184, 150>>, <<228, 184, 150, 97>>}

\* the underline characters of a document's sections, in order: = - ~
SectionChars == {61, 45, 126}

SectionRuns == UNION {[1..n -> SectionChars] : n \in 0..MaxSections}

\* the inputs of the runs checked for progress
LiveInputs == {s \in Inputs : Len(s) <= MaxLiveLen}

---------------------------------------------------------------------------
(* Constants and pure functions of lex.go.                                 *)

EOF == -1
RuneError == 65533
\* l.items made with room for one item: make(chan item, 1)
ChanCapOne == 0 + 1

\* make(chan item), line 100: no buffer
ChanCap == 0

\* ! " # $ ' % & ( ) * + , - . / : ; < = > ? @ [ \ ] ^ _ ` { | } ~
sectionAdornments ==
    { 33, 34, 35, 36, 39, 37, 38, 40, 41, 42, 43, 44, 45, 46, 47, 58, 59, 60,
      61, 62, 63, 64, 91, 92, 93, 94, 95, 96, 123, 124, 125, 126 }

TerminalTypes == {"itemEOF", "itemError"}

isSectionAdornment(r) == r \in sectionAdornments

isEndOfLine(r) == r = 13 \/ r = 10

IsCont(b) == b >= 128 /\ b <= 191

\* utf8.DecodeRuneInString: <<rune, width>> of the first rune of byte string s
DecodeRuneInString(s) ==
    IF Len(s) = 0 THEN <<RuneError, 0>>
    ELSE LET b0 == s[1] IN
      IF b0 < 128 THEN <<b0, 1>>
      ELSE IF b0 >= 194 /\ b0 <= 223 THEN
        IF Len(s) >= 2 /\ IsCont(s[2])
        THEN <<(b0 % 32) * 64 + (s[2] % 64), 2>>
        ELSE <<RuneError, 1>>
      ELSE IF b0 >= 224 /\ b0 <= 239 THEN
        LET lo == IF b0 = 224 THEN 160 ELSE 128
            hi == IF b0 = 237 THEN 159 ELSE 191
        IN IF Len(s) >= 3 /\ s[2] >= lo /\ s[2] <= hi /\ IsCont(s[3])
           THEN <<(b0 % 16) * 4096 + (s[2] % 64) * 64 + (s[3] % 64), 3>>
           ELSE <<RuneError, 1>>
      ELSE IF b0 >= 240 /\ b0 <= 244 THEN
        LET lo == IF b0 = 240 THEN 144 ELSE 128
            hi == IF b0 = 244 THEN 143 ELSE 191
        IN IF Len(s) >= 4 /\ s[2] >= lo /\ s[2] <= hi /\ IsCont(s[3])
              /\ IsCont(s[4])
           THEN <<(b0 % 8) * 262144 + (s[2] % 64) * 4096 + (s[3] % 64) * 64
                    + (s[4] % 64), 4>>
           ELSE <<RuneError, 1>>
      ELSE <<RuneError, 1>>

\* the Go slice expression s[a:b] is in range
SliceOK(a, b) == 0 <= a /\ a <= b /\ b <= Len(input)

\* input[a:]
From(a) == SubSeq(input, a + 1, Len(input))

---------------------------------------------------------------------------
(* Cursor operations. A cursor c is [pos, start, width, line].             *)

Cur == [pos |-> pos, start |-> start, width |-> width, line |-> line]

\* current(): the rune at pos; slices input[pos:]
current(c) == DecodeRuneInString(From(c.pos))[1]

\* next(): the rune returned
nextRune(c) ==
    IF c.pos >= Len(input) THEN EOF ELSE DecodeRuneInString(From(c.pos))[1]

\* next() that leaves the width of the last rune in place at the end
nextCursorKeepsWidth(c) ==
    IF c.pos >= Len(input) THEN c
    ELSE LET w == DecodeRuneInString(From(c.pos))[2]
         IN [c EXCEPT !.width = w, !.pos = c.pos + w]

\* next(): the cursor afterwards
nextCursor(c) ==
    IF c.pos >= Len(input) THEN [c EXCEPT !.width = 0]
    ELSE LET w == DecodeRuneInString(From(c.pos))[2]
         IN [c EXCEPT !.width = w, !.pos = c.pos + w]

\* next() slices input[pos:] when pos < len(input): out of range for pos < 0
nextPanics(c) == c.pos < Len(input) /\ c.pos < 0

\* backup() stepping back one byte whatever the rune's width
backupOne(c) == [c EXCEPT !.pos = c.pos - 1]

backup(c) == [c EXCEPT !.pos = c.pos - c.width]

\* peek(): next() then backup()
peekRune(c) == nextRune(c)

peekCursor(c) == backup(nextCursor(c))

\* ignore() stepping over two bytes
ignoreTwo(c) == [c EXCEPT !.pos = c.pos + 2, !.start = c.pos + 2]

\* ignore(), lines 137-140
ignore(c) == [c EXCEPT !.pos = c.pos + 1, !.start = c.pos + 1]

\* emit without its assignment to l.start
emitDoneKeepsStart(c) == c

\* emit's assignment l.start = l.pos
emitDone(c) == [c EXCEPT !.start = c.pos]

\* the item emit builds
mkItem(c, t) ==
    [ElementType |-> t, Position |-> c.start, Line |-> c.line,
     Value |-> SubSeq(input, c.start + 1, c.pos)]

---------------------------------------------------------------------------
(* What one stretch of a state function does, up to its next emit: the     *)
(* cursor it leaves, where the producer goes, and the item type it emits.  *)

Goto(c, p) == [cur |-> c, goto |-> p, send |-> <<>>, ret |-> "none"]

EmitThen(c, t, k) ==
    IF SliceOK(c.start, c.pos)
    THEN [cur |-> c, goto |-> "emit", send |-> <<t>>, ret |-> k]
    ELSE Goto(c, "panic")

\* lexStart returning lexStart, not nil, after EOF
AfterEOFRestart == "lexStart"

\* what run() does with the nil that lexStart returns after EOF
AfterEOF == "done"

\* lexStart going to EOF without the flush of lines 213-215
lexStartTailNoFlush(c) == EmitThen(c, "itemEOF", "startNil")

\* lexStart, lines 212-218: after the loop
lexStartTail(c) ==
    IF c.pos > c.start
    THEN EmitThen(c, "itemParagraph", "startEOF")
    ELSE EmitThen(c, "itemEOF", "startNil")

\* lexStart, lines 207-210: if l.next() == EOF { break }
lexStartNext(c) ==
    IF nextPanics(c) THEN Goto(c, "panic")
    ELSE IF nextRune(c) = EOF THEN lexStartTail(nextCursor(c))
    ELSE Goto(nextCursor(c), "lexStart")

\* lexStart, lines 181-206: one iteration of the loop, from its top
lexStartLoop(c) ==
    IF Len(input) = 0 THEN EmitThen(c, "itemEOF", "startNil")
    ELSE IF ~SliceOK(c.start, c.pos) THEN Goto(c, "panic")
    ELSE LET r == current(c)
             c1 == IF isSectionAdornment(r) THEN peekCursor(c) ELSE c
         IN IF isSectionAdornment(r) /\ isSectionAdornment(peekRune(c))
               /\ c.pos = 1
            THEN Goto(c1, "lexSection")
            ELSE IF isEndOfLine(r)
            THEN LET c2 == [c1 EXCEPT !.line = c1.line + 1]
                     c3 == peekCursor(c2)
                 IN IF isSectionAdornment(peekRune(c2))
                    THEN Goto(c3, "lexSection")
                    ELSE IF c3.pos > c3.start
                    THEN EmitThen(c3, "itemParagraph", "startIgnore")
                    ELSE lexStartNext(ignore(c3))
            ELSE lexStartNext(c1)

\* lexSection, lines 222-230
lexSectionEntry(c) ==
    IF Len(input) > 0 /\ ~SliceOK(c.start, c.pos) THEN Goto(c, "panic")
    ELSE IF nextPanics(c) THEN Goto(c, "panic")
    ELSE IF isEndOfLine(peekRune(c))
    THEN EmitThen(peekCursor(c), "itemTitle", "sectionTitle")
    ELSE Goto(peekCursor(c), "Loop")

\* lexSection, lines 233-247: one iteration of Loop
lexSectionLoop(c) ==
    IF nextPanics(c) THEN Goto(c, "panic")
    ELSE LET r == nextRune(c)
             c1 == nextCursor(c)
         IN IF isSectionAdornment(r)
            THEN IF Len(input) > 0 /\ ~SliceOK(c1.start, c1.pos)
                 THEN Goto(c1, "panic")
                 ELSE Goto(c1, "Loop")
            ELSE IF isEndOfLine(r)
            THEN EmitThen(backup(c1), "itemSectionAdornment", "sectionAdorn")
            ELSE Goto(c1, "Loop")

\* the rest of emit (l.start = l.pos) and what follows the call
afterEmit(c, k) ==
    LET c1 == emitDone(c) IN
    CASE k = "startIgnore" -> lexStartNext(ignore(c1))
      [] k = "startEOF" -> EmitThen(c1, "itemEOF", "startNil")
      [] k = "startNil" -> Goto(c1, AfterEOF)
      [] k = "sectionTitle" -> Goto(ignore(c1), "Loop")
      [] k = "sectionAdorn" ->
            Goto(ignore([c1 EXCEPT !.line = c1.line + 1]), "lexStart")
      [] OTHER -> Goto(c1, "panic")

---------------------------------------------------------------------------
(* The channel l.items = make(chan item).                                  *)

\* a send that never waits for the receiver
senderNeverParked(o) == FALSE

\* a sender whose item no receiver has taken yet stays parked in the send
senderParked(o) == o # <<>>

\* the item a receive gets: the oldest buffered one, else the parked sender's
recvItem(b, o) == IF b # <<>> THEN Head(b) ELSE Head(o)

\* l.items <- item (line 109): buffered when there is room, else the sender
\* offers the item and parks until a receiver takes it
Send(o) ==
    LET it == mkItem(o.cur, o.send[1]) IN
    /\ emitted' = Append(emitted, it)
    /\ ret' = o.ret
    /\ pc' = "emit"
    /\ IF Len(buf) < ChanCap
       THEN buf' = Append(buf, it) /\ offer' = offer
       ELSE offer' = <<it>> /\ buf' = buf

Apply(o) ==
    /\ pos' = o.cur.pos
    /\ start' = o.cur.start
    /\ width' = o.cur.width
    /\ line' = o.cur.line
    /\ IF o.send = <<>>
       THEN /\ pc' = o.goto
            /\ UNCHANGED <<ret, offer, buf, emitted>>
       ELSE Send(o)
    /\ UNCHANGED <<input, lastPos, cpc, hand, received, sect, last>>

---------------------------------------------------------------------------
(* The producer: run() and the state functions.                            *)

LexStart == pc = "lexStart" /\ Apply(lexStartLoop(Cur))

LexSection == pc = "lexSection" /\ Apply(lexSectionEntry(Cur))

SectionLoop == pc = "Loop" /\ Apply(lexSectionLoop(Cur))

\* emit, line 111 on: the send is over
EmitReturn ==
    pc = "emit" /\ ~senderParked(offer) /\ Apply(afterEmit(Cur, ret))

Producer == LexStart \/ LexSection \/ SectionLoop \/ EmitReturn

---------------------------------------------------------------------------
(* The consumer: collect calling nextItem.                                 *)

\* nextItem, line 157: item := <-l.items
Recv ==
    /\ cpc = "call"
    /\ buf # <<>> \/ offer # <<>>
    /\ hand' = <<recvItem(buf, offer)>>
    /\ cpc' = "got"
    /\ IF buf # <<>>
       THEN buf' = Tail(buf) \o offer /\ offer' = <<>>
       ELSE buf' = buf /\ offer' = <<>>
    /\ UNCHANGED <<input, pos, start, width, line, lastPos, pc, ret, emitted,
                   received, sect, last>>

\* nextItem storing the producer's l.pos in l.lastPos
nextItemAssignReadsPos(f, it) == [f EXCEPT !.lastPos = f.pos]

\* nextItem assigning item.Position to l.pos
nextItemAssignPos(f, it) == [f EXCEPT !.pos = it.Position]

\* nextItem, line 158: l.lastPos = item.Position, on the lexer's fields f
nextItemAssign(f, it) == [f EXCEPT !.lastPos = it.Position]

\* nextItem, lines 158-159, and collect, lines 109-112
NextItemReturn ==
    /\ cpc = "got"
    /\ LET f == nextItemAssign([pos |-> pos, start |-> start, width |-> width,
                                line |-> line, lastPos |-> lastPos], hand[1])
       IN /\ pos' = f.pos
          /\ start' = f.start
          /\ width' = f.width
          /\ line' = f.line
          /\ lastPos' = f.lastPos
    /\ received' = Append(received, hand[1])
    /\ hand' = <<>>
    /\ cpc' = IF hand[1].ElementType \in TerminalTypes
              THEN "finished" ELSE "call"
    /\ UNCHANGED <<input, pc, ret, offer, buf, emitted, sect, last>>

\* a consumer that gives up before a terminal item: it calls nextItem no more
ConsumerStop ==
    /\ cpc = "call"
    /\ cpc' = "stopped"
    /\ UNCHANGED <<input, pos, start, width, line, lastPos, pc, ret, offer,
                   buf, emitted, hand, received, sect, last>>

Consumer == Recv \/ NextItemReturn

---------------------------------------------------------------------------

\* no section seen yet: the level stack is empty
NoSections == [stack |-> <<>>, todo |-> <<>>, chars |-> <<>>, levels |-> <<>>,
               msgs |-> <<>>]

\* no cursor operation called yet
NoOp == [op |-> "none", r |-> 0, pop |-> "none", pr |-> 0]

\* the lexer as constructed on an input of the set ins, lines 96-101
NewLexer(ins) ==
    /\ input \in ins
    /\ pos = 0
    /\ start = 0
    /\ width = 0
    /\ line = 1
    /\ lastPos = 0
    /\ ret = "none"
    /\ offer = <<>>
    /\ buf = <<>>
    /\ emitted = <<>>
    /\ hand = <<>>
    /\ received = <<>>

\* lex(name, input), lines 95-104, on an input of the set ins
InitOn(ins) ==
    /\ NewLexer(ins)
    /\ pc = "lexStart"
    /\ cpc = "call"
    /\ sect = NoSections
    /\ last = NoOp

Init == InitOn(Inputs)

Next == Producer \/ Consumer \/ ConsumerStop

Spec == Init /\ [][Next]_vars

\* the consumer drains the channel as collect does; goroutines are scheduled
NextDrain == Producer \/ Consumer

LiveSpec ==
    /\ InitOn(LiveInputs)
    /\ [][NextDrain]_vars
    /\ WF_vars(Producer)
    /\ WF_vars(Consumer)


---------------------------------------------------------------------------
(* The cursor operations called one at a time, in any order, as the        *)
(* lexer's own code and its tests call them.                               *)

Panicked == [op |-> "panic", r |-> 0, pop |-> last.op, pr |-> last.r]

Called(name, rune) == [op |-> name, r |-> rune, pop |-> last.op, pr |-> last.r]

SetCursor(c) ==
    /\ pos' = c.pos
    /\ start' = c.start
    /\ width' = c.width
    /\ line' = c.line

CursorFrame ==
    UNCHANGED <<input, lastPos, pc, ret, offer, buf, emitted, cpc, hand,
                received, sect>>

\* l.next()
OpNext ==
    /\ pc = "cursor" /\ last.op # "panic"
    /\ IF nextPanics(Cur)
       THEN last' = Panicked /\ UNCHANGED cursor
       ELSE last' = Called("next", nextRune(Cur)) /\ SetCursor(nextCursor(Cur))
    /\ CursorFrame

\* l.peek()
OpPeek ==
    /\ pc = "cursor" /\ last.op # "panic"
    /\ IF nextPanics(Cur)
       THEN last' = Panicked /\ UNCHANGED cursor
       ELSE last' = Called("peek", peekRune(Cur)) /\ SetCursor(peekCursor(Cur))
    /\ CursorFrame

\* l.backup(); not called again once pos is below 0
OpBackup ==
    /\ pc = "cursor" /\ last.op # "panic"
    /\ pos >= 0
    /\ last' = Called("backup", 0)
    /\ SetCursor(backup(Cur))
    /\ CursorFrame

\* l.ignore(); not called again once pos is beyond len(input)
OpIgnore ==
    /\ pc = "cursor" /\ last.op # "panic"
    /\ pos <= Len(input)
    /\ last' = Called("ignore", 0)
    /\ SetCursor(ignore(Cur))
    /\ CursorFrame

CursorInit ==
    /\ NewLexer(CursorInputs)
    /\ pc = "cursor"
    /\ cpc = "none"
    /\ sect = NoSections
    /\ last = NoOp

CursorNext == OpNext \/ OpPeek \/ OpBackup \/ OpIgnore

CursorSpec == CursorInit /\ [][CursorNext]_vars

---------------------------------------------------------------------------
(* The section matcher's level stack: index 1 is the outermost level.      *)

\* a reused character taken for a new, deeper level
sectionLevelAlwaysPush(stack, depth, ch) ==
    [stack |-> Append(stack, ch), level |-> Len(stack) + 1, msg |-> "none"]

\* the level of a section adorned with ch, after a section of level depth:
\* a character of the stack returns to its level and truncates the stack to
\* it; a new character is pushed, which must give level depth + 1
sectionLevel(stack, depth, ch) ==
    IF \E d \in 1..Len(stack) : stack[d] = ch
    THEN LET d == CHOOSE e \in 1..Len(stack) : stack[e] = ch
         IN [stack |-> SubSeq(stack, 1, d), level |-> d, msg |-> "none"]
    ELSE [stack |-> Append(stack, ch), level |-> Len(stack) + 1,
          msg |-> IF Len(stack) + 1 = depth + 1 THEN "none" ELSE "SEVERE"]

\* the matcher takes the next section of the document
MatchSection ==
    /\ pc = "levels"
    /\ sect.todo # <<>>
    /\ LET depth == IF sect.levels = <<>> THEN 0
                    ELSE sect.levels[Len(sect.levels)]
           m == sectionLevel(sect.stack, depth, Head(sect.todo))
       IN sect' = [stack |-> m.stack,
                   todo |-> Tail(sect.todo),
                   chars |-> Append(sect.chars, Head(sect.todo)),
                   levels |-> Append(sect.levels, m.level),
                   msgs |-> Append(sect.msgs, m.msg)]
    /\ UNCHANGED <<input, pos, start, width, line, lastPos, pc, ret, offer,
                   buf, emitted, cpc, hand, received, last>>

LevelInit ==
    /\ NewLexer({<<>>})
    /\ pc = "levels"
    /\ cpc = "none"
    /\ \E t \in SectionRuns : sect = [NoSections EXCEPT !.todo = t]
    /\ last = NoOp

LevelSpec == LevelInit /\ [][MatchSection]_vars

---------------------------------------------------------------------------
(* Vocabulary of the properties.                                           *)

\* what the consumer has taken off the channel, in order
Delivered == received \o hand

\* the items emitted and not yet taken by the consumer
InFlight == Len(emitted) - Len(Delivered)

Types(items) == [i \in 1..Len(items) |-> items[i].ElementType]

TerminalEmitted ==
    \E i \in 1..Len(emitted) : emitted[i].ElementType \in TerminalTypes

Bytes(s) == {s[i] : i \in 1..Len(s)}

\* the physical lines of s, split at '\n'; a final '\n' ends the last line
RECURSIVE SplitLines(_, _)
SplitLines(s, acc) ==
    IF s = <<>> THEN (IF acc = <<>> THEN <<>> ELSE <<acc>>)
    ELSE IF Head(s) = 10 THEN <<acc>> \o SplitLines(Tail(s), <<>>)
    ELSE SplitLines(Tail(s), Append(acc, Head(s)))

InputLines == SplitLines(input, <<>>)

RECURSIVE RuneLen(_)
RuneLen(s) ==
    IF s = <<>> THEN 0
    ELSE 1 + RuneLen(SubSeq(s, DecodeRuneInString(s)[2] + 1, Len(s)))

\* a line of one repeated adornment character
IsAdornmentLine(l) ==
    /\ l # <<>>
    /\ isSectionAdornment(l[1])
    /\ \A i \in 1..Len(l) : l[i] = l[1]

\* a line of title text: not empty, no adornment character, no line end
IsTitleLine(l) ==
    /\ l # <<>>
    /\ \A i \in 1..Len(l) : ~isSectionAdornment(l[i]) /\ ~isEndOfLine(l[i])

---------------------------------------------------------------------------
(* The properties.                                                         *)

\* C1: for every finite input, a consumer that keeps calling nextItem until
\* it gets a terminal item does get EOF or Error: the producer never loops
\* forever in lexStart or lexSection without emitting.
C1_TerminalDelivered == <>(cpc = "finished")

\* C2: the producer emits at most one terminal item (EOF or Error) and no item
\* after it: once it is emitted the producer is only finishing that emit
\* (lexStart then returns nil) or run() has stopped.
C2_OneTerminalLast ==
    /\ \A i \in 1..Len(emitted) :
          emitted[i].ElementType \in TerminalTypes => i = Len(emitted)
    /\ TerminalEmitted =>
          \/ pc = "done"
          \/ pc = "emit" /\ ret = "startNil"

C2_Witness ==
    /\ pc = "done"
    /\ Len(emitted) >= 3
    /\ emitted[Len(emitted)].ElementType = "itemEOF"

\* C3: the items nextItem returns are exactly the items passed to emit, in
\* the same order, none lost, duplicated or reordered, under every
\* interleaving: what was delivered, followed by what the channel holds, is
\* what was emitted.
C3_DeliveredIsEmitted == emitted = Delivered \o buf \o offer

C3_Witness ==
    /\ cpc = "finished"
    /\ Len(received) >= 3
    /\ received = emitted

\* C4: the handoff is a rendezvous: at most one emitted item awaits receipt,
\* and while one does the producer changes none of pos, start, width, line.
C4_Rendezvous ==
    /\ [](InFlight <= 1)
    /\ [][InFlight > 0 => cursor' = cursor]_vars

C4_Witness ==
    /\ InFlight = 1
    /\ pc = "emit"
    /\ Len(received) >= 1
    /\ cpc = "call"

\* C5: when the consumer has stopped calling nextItem before a terminal item
\* and the producer has an item to hand over, the producer stays blocked in
\* that emit: it emits nothing more, moves no cursor field and never reaches
\* the end of run().
C5_AbandonedProducerBlocked ==
    [][(cpc = "stopped" /\ InFlight > 0)
          => /\ pc = "emit" /\ pc' = "emit"
             /\ emitted' = emitted
             /\ cursor' = cursor]_vars

C5_Witness ==
    /\ cpc = "stopped"
    /\ pc = "emit"
    /\ InFlight = 1
    /\ Len(received) >= 1
    /\ ~TerminalEmitted

---------------------------------------------------------------------------
(* The items of a run with nothing else going on: run() alone, every send  *)
(* taken at once.                                                          *)

\* the steps allowed to run() alone: enough for any input of this length
RunSteps == 3 * Len(input) + 6

\* the lexer's cursor as lex() makes it
NewCursor == [pos |-> 0, start |-> 0, width |-> 0, line |-> 1]

\* the items run() sends from outcome o on, in at most n steps
RECURSIVE RunFrom(_, _)
RunFrom(o, n) ==
    IF n = 0 THEN <<>>
    ELSE IF o.send # <<>>
    THEN <<mkItem(o.cur, o.send[1])>> \o RunFrom(afterEmit(o.cur, o.ret), n - 1)
    ELSE IF o.goto = "lexStart" THEN RunFrom(lexStartLoop(o.cur), n - 1)
    ELSE IF o.goto = "lexSection" THEN RunFrom(lexSectionEntry(o.cur), n - 1)
    ELSE IF o.goto = "Loop" THEN RunFrom(lexSectionLoop(o.cur), n - 1)
    ELSE <<>>

\* the items of the input, by run() alone
RunAlone == RunFrom(Goto(NewCursor, "lexStart"), RunSteps)

IsPrefix(a, b) == Len(a) <= Len(b) /\ a = SubSeq(b, 1, Len(a))

\* the Position of the item nextItem returned last, 0 before the first
LastReceivedPosition ==
    IF received = <<>> THEN 0 ELSE received[Len(received)].Position

\* C6: producer and consumer share no mutable lexer field.  Writes: no step
\* of the consumer changes pos, start, width or line, and no step of the
\* producer changes lastPos, which only nextItem writes.  Reads, by their
\* effect: what nextItem stores in lastPos is the Position of the item it
\* received and nothing of the cursor, and what the producer emits is what
\* run() alone emits for the input, whatever lastPos holds meanwhile.
C6_NoSharedFields ==
    /\ [][/\ (Consumer \/ ConsumerStop) => cursor' = cursor
          /\ Producer => lastPos' = lastPos
          /\ lastPos' # lastPos => cpc = "got"]_vars
    /\ [](lastPos = LastReceivedPosition)
    /\ [](IsPrefix(emitted, RunAlone))

C6_Witness ==
    /\ lastPos > 0
    /\ pos > lastPos
    /\ pc \in {"lexStart", "Loop"}

\* C7: tokenizing never raises an exception: in every reachable state
\* 0 <= start <= pos <= len(input), so no slice of input is out of range.
C7_NoPanic ==
    /\ pc # "panic"
    /\ 0 <= start
    /\ start <= pos
    /\ pos <= Len(input)

C7_Witness ==
    /\ pc = "done"
    /\ 195 \in Bytes(input)
    /\ 13 \in Bytes(input)
    /\ ~isEndOfLine(input[Len(input)])
    /\ Len(emitted) >= 3

\* C8: a title line T followed at once by an underline of one repeated
\* adornment character, at least as long as T in runes, gives a Title item
\* with text T and then a SectionAdornment item for the underline, with no
\* SystemMessage between them.
C8_TitleThenAdornment ==
    pc = "done" =>
      \A n \in 1..(Len(InputLines) - 1) :
        ( /\ IsTitleLine(InputLines[n])
          /\ IsAdornmentLine(InputLines[n + 1])
          /\ RuneLen(InputLines[n + 1]) >= RuneLen(InputLines[n]) )
        => \E i, j \in 1..Len(emitted) :
              /\ i < j
              /\ emitted[i].ElementType = "itemTitle"
              /\ emitted[i].Value = InputLines[n]
              /\ emitted[j].ElementType = "itemSectionAdornment"
              /\ emitted[j].Value = InputLines[n + 1]
              /\ \A k \in (i + 1)..(j - 1) :
                    emitted[k].ElementType # "itemSystemMessage"

\* C9: a document of a title, a valid underline, a blank line and one line of
\* paragraph text gives exactly Title(title), SectionAdornment(underline),
\* BlankLine, Paragraph(paragraph text, without a newline), EOF.
C9_TitleParagraphDocument ==
    ( /\ pc = "done"
      /\ Len(InputLines) = 4
      /\ input[Len(input)] = 10
      /\ IsTitleLine(InputLines[1])
      /\ IsAdornmentLine(InputLines[2])
      /\ RuneLen(InputLines[2]) >= RuneLen(InputLines[1])
      /\ InputLines[3] = <<>>
      /\ IsTitleLine(InputLines[4]) )
    => /\ Types(emitted) = <<"itemTitle", "itemSectionAdornment",
                             "itemBlankLine", "itemParagraph", "itemEOF">>
       /\ emitted[1].Value = InputLines[1]
       /\ emitted[2].Value = InputLines[2]
       /\ emitted[4].Value = InputLines[4]

\* C10: for a title whose underline is shorter in runes than the title, the
\* Title item is still emitted, exactly one SystemMessage item follows it
\* before the next blank line or the end of the document, and lexing goes on
\* to EOF.
C10_ShortUnderlineMessage ==
    ( /\ pc = "done"
      /\ Len(InputLines) = 2
      /\ IsTitleLine(InputLines[1])
      /\ IsAdornmentLine(InputLines[2])
      /\ RuneLen(InputLines[2]) < RuneLen(InputLines[1]) )
    => /\ \E i \in 1..Len(emitted) :
            /\ emitted[i].ElementType = "itemTitle"
            /\ emitted[i].Value = InputLines[1]
            /\ Cardinality({k \in (i + 1)..Len(emitted) :
                  emitted[k].ElementType = "itemSystemMessage"}) = 1
       /\ emitted[Len(emitted)].ElementType = "itemEOF"

\* C11: a document of an overline, a title line and an underline of the same
\* repeated adornment character, both at least as long as the title in
\* runes, gives exactly SectionAdornment(overline), Title(title),
\* SectionAdornment(underline), EOF.
C11_OverlinedSection ==
    ( /\ pc = "done"
      /\ Len(InputLines) = 3
      /\ input[Len(input)] = 10
      /\ IsAdornmentLine(InputLines[1])
      /\ IsTitleLine(InputLines[2])
      /\ InputLines[3] = InputLines[1]
      /\ RuneLen(InputLines[1]) >= RuneLen(InputLines[2]) )
    => /\ Types(emitted) = <<"itemSectionAdornment", "itemTitle",
                             "itemSectionAdornment", "itemEOF">>
       /\ emitted[1].Value = InputLines[1]
       /\ emitted[2].Value = InputLines[2]
       /\ emitted[3].Value = InputLines[3]

\* C12: for the empty input the producer emits exactly one item, the EOF
\* item, and then stops: nothing is emitted before it or after it.
C12_EmptyInputOneEOF ==
    input = <<>> =>
      /\ Len(emitted) <= 1
      /\ Types(emitted) \in {<<>>, <<"itemEOF">>}
      /\ (pc = "done" => Types(emitted) = <<"itemEOF">>)
      /\ (emitted # <<>> /\ ~senderParked(offer) => pc \in {"emit", "done"})

C12_Witness ==
    /\ input = <<>>
    /\ pc = "done"
    /\ Types(received) = <<"itemEOF">>
    /\ cpc = "finished"

\* the fields of the item emit builds that carry the item's id
IdFields(it) == DOMAIN it \cap {"ID", "Id", "id"}

\* C14: the first item emitted has id 1 and every later item has an id
\* exactly one more than the item emitted before it: every item carries an
\* id, and the id of the k-th item is k.
C14_IdsCountFromOne ==
    \A k \in 1..Len(emitted) :
        /\ IdFields(emitted[k]) # {}
        /\ \A f \in IdFields(emitted[k]) : emitted[k][f] = k

\* the line breaks among the first n bytes of the input
BreaksBefore(n) == Cardinality({i \in 1..n : input[i] = 10})

\* C15: every item's Line is the 1-based number of the physical line on
\* which its text begins: one more than the line breaks before its first
\* byte.  Stated for the documents whose only line break is '\n'.
C15_LineOfFirstByte ==
    13 \notin Bytes(input) =>
      \A k \in 1..Len(emitted) :
          emitted[k].Line = 1 + BreaksBefore(emitted[k].Position)

\* C16: start positions count from 1: the first item of a document that
\* begins with text at the start of line 1 has start position 1.
C16_StartPositionOneBased ==
    ( /\ emitted # <<>>
      /\ input # <<>>
      /\ ~isEndOfLine(input[1])
      /\ ~isSectionAdornment(input[1]) )
    => emitted[1].Position = 1

\* C13: section levels follow the first appearance of each adornment
\* character: a section adorned like the document's first section is a
\* sibling at level 1 (so in '=', '-', '=' the second '=' has level 1), the
\* stack is cut back to depth 1, and no diagnostic is given for it.
C13_FirstCharReturnsToLevelOne ==
    \A k \in 1..Len(sect.chars) :
        sect.chars[k] = sect.chars[1] =>
          /\ sect.levels[k] = 1
          /\ sect.msgs[k] = "none"
          /\ (k = Len(sect.chars) => sect.stack = <<sect.chars[1]>>)

C13_Witness ==
    /\ sect.chars = <<61, 45, 61>>
    /\ sect.levels = <<1, 2, 1>>
    /\ sect.stack = <<61>>

\* C17: peek() leaves the index, the width and the line number as they
\* were, whatever the cursor state it is called in.
C17_PeekLeavesCursor ==
    [][OpPeek => (pos' = pos /\ width' = width /\ line' = line)]_vars

\* C18: the rune peek() returns is the rune an immediately following next()
\* returns.
C18_PeekIsNext ==
    (last.op = "next" /\ last.pop = "peek") => last.r = last.pr

C18_Witness ==
    /\ last.op = "next"
    /\ last.pop = "peek"
    /\ last.r = 19990
    /\ width = 3

\* C19: with the cursor at the end of the document, every call of next()
\* returns EOF, sets the width to 0 and leaves the position and the line
\* number unchanged.
C19_NextAtEnd ==
    [][(OpNext /\ pos = Len(input)) =>
          /\ last'.op = "next"
          /\ last'.r = EOF
          /\ width' = 0
          /\ pos' = pos
          /\ line' = line]_vars

C19_Witness ==
    /\ input # <<>>
    /\ pos = Len(input)
    /\ last.op = "next" /\ last.r = EOF
    /\ last.pop = "next" /\ last.pr = EOF
    /\ width = 0

\* the offsets at which the runes from offset p on begin, and len(input)
RECURSIVE RuneStarts(_)
RuneStarts(p) ==
    IF p >= Len(input) THEN {p}
    ELSE {p} \cup RuneStarts(p + DecodeRuneInString(From(p))[2])

\* the runes between the start of the document and offset p
RunesBefore(p) == Cardinality({q \in RuneStarts(0) : q < p})

\* n calls of backup()
RECURSIVE backupN(_, _)
backupN(c, n) == IF n = 0 THEN c ELSE backupN(backup(c), n - 1)

\* n calls of next()
RECURSIVE nextN(_, _)
nextN(c, n) == IF n = 0 THEN c ELSE nextN(nextCursor(c), n - 1)

\* one of n calls of next() slices out of range
RECURSIVE nextNPanics(_, _)
nextNPanics(c, n) ==
    n > 0 /\ (nextPanics(c) \/ nextNPanics(nextCursor(c), n - 1))

\* C20: backup and next are inverse: from a cursor that next() has just
\* moved over a rune to a rune boundary, backing up n runes, n no more than
\* the runes before the cursor, and then calling next() n times comes back
\* to the same position, current rune and width.
C20_BackupNextInverse ==
    ( /\ pc = "cursor"
      /\ last.op = "next" /\ last.r # EOF
      /\ pos \in RuneStarts(0) ) =>
      \A n \in 1..RunesBefore(pos) :
        LET b == backupN(Cur, n)
        IN /\ ~nextNPanics(b, n)
           /\ nextN(b, n).pos = pos
           /\ nextN(b, n).width = width
           /\ current(nextN(b, n)) = current(Cur)

\* C21: after any sequence of next, backup, peek and ignore calls on an
\* input with 2-byte and 3-byte runes the cursor is at the start of a rune
\* of the input or at its end, never inside a multi-byte rune.
C21_CursorOnRuneBoundary ==
    (pc = "cursor" /\ last.op # "panic") => pos \in RuneStarts(0)

\* C22: backup never moves the cursor before the start of the document: the
\* position is not negative after any sequence of backup calls.
C22_BackupNeverNegative ==
    (pc = "cursor" /\ last.op = "backup") => pos >= 0

\* C23: next() with the cursor on the line break of a line that is not the
\* last one moves to the first byte of the following line and adds exactly
\* one to the line number; within a line it advances by the byte width of
\* the rune at the cursor and leaves the line number as it was.
C23_NextCrossesLine ==
    [][(OpNext /\ pos >= 0 /\ pos < Len(input)) =>
          IF isEndOfLine(input[pos + 1]) /\ pos + 1 < Len(input)
          THEN pos' = pos + 1 /\ line' = line + 1
          ELSE /\ pos' = pos + DecodeRuneInString(From(pos))[2]
               /\ line' = line]_vars

---------------------------------------------------------------------------
(* The line-indexed cursor: line is the number of the current line of the  *)
(* Line Table and pos the byte index within that line.                     *)

\* the inputs whose lines are looked at: the short inputs, an overlined
\* title, and a document with a line of one space
LineInputs ==
    CursorInputs
        \cup {<<61, 61, 10, 84, 10, 61, 61>>, <<61, 10, 32, 10, 84>>}

isSpace(r) == r = 32 \/ r = 9

\* a line with nothing but spaces and tabs on it
IsBlankLine(l) == \A i \in 1..Len(l) : isSpace(l[i])

\* the text of the current line taken for that of the following one
peekCurrentLine(lines, ln) ==
    IF ln <= Len(lines) /\ ~IsBlankLine(lines[ln]) THEN lines[ln] ELSE <<>>

\* the text of the line after line ln, "" when there is none or it is blank
peekNextLine(lines, ln) ==
    IF ln < Len(lines) /\ ~IsBlankLine(lines[ln + 1]) THEN lines[ln + 1]
    ELSE <<>>

\* no call made yet; the calls on lines return text
NoText == [op |-> "none", r |-> <<>>, pop |-> "none", pr |-> <<>>]

LineFrame ==
    UNCHANGED <<input, start, lastPos, pc, ret, offer, buf, emitted, cpc,
                hand, received, sect>>

\* l.gotoLocation(index, lineNumber), for a line of the Line Table
GotoLocation ==
    /\ pc = "lines"
    /\ \E ln \in 1..Len(InputLines) :
         \E ix \in 0..Len(InputLines[ln]) :
            /\ pos' = ix
            /\ line' = ln
    /\ width' = 0
    /\ last' = Called("gotoLocation", <<>>)
    /\ LineFrame

\* l.peekNextLine()
PeekNextLine ==
    /\ pc = "lines"
    /\ last' = Called("peekNextLine", peekNextLine(InputLines, line))
    /\ UNCHANGED cursor
    /\ LineFrame

LineInit ==
    /\ NewLexer(LineInputs)
    /\ pc = "lines"
    /\ cpc = "none"
    /\ sect = NoSections
    /\ last = NoText

LineNext == GotoLocation \/ PeekNextLine

LineSpec == LineInit /\ [][LineNext]_vars

\* C24: peekNextLine() returns the full text of the line after the cursor's
\* line, or the empty string when there is no such line or it is blank, and
\* leaves the cursor's index and line number as they were.
C24_PeekNextLine ==
    [][PeekNextLine =>
          /\ pos' = pos
          /\ line' = line
          /\ last'.op = "peekNextLine"
          /\ IF line >= Len(InputLines) THEN last'.r = <<>>
             ELSE IF \A i \in 1..Len(InputLines[line + 1]) :
                        InputLines[line + 1][i] \in {32, 9}
             THEN last'.r = <<>>
             ELSE last'.r = InputLines[line + 1]]_vars

C24_Witness ==
    /\ pc = "lines"
    /\ input = <<61, 61, 10, 84, 10, 61, 61>>
    /\ line = 1 /\ pos = 1
    /\ last.op = "peekNextLine"
    /\ last.r = <<84>>

---------------------------------------------------------------------------
(* The state functions, step by step.                                      *)

\* the offsets at which the lines of the input begin: offset 0 and every
\* offset after a character isEndOfLine accepts, '\r' as well as '\n'
LineStarts ==
    {0} \cup {i \in 1..(Len(input) - 1) : isEndOfLine(input[i])}

\* the line beginning at offset s begins with an adornment character twice
PairAt(s) ==
    /\ s + 2 <= Len(input)
    /\ isSectionAdornment(input[s + 1])
    /\ input[s + 2] = input[s + 1]

\* the cursor is on an end-of-line character
AtEndOfLine == pos >= 0 /\ pos < Len(input) /\ isEndOfLine(input[pos + 1])

\* the character after the one under the cursor is an adornment character
AdornmentFollows ==
    pos + 2 <= Len(input) /\ isSectionAdornment(input[pos + 2])

\* C25: Start goes to Section exactly for a line, the first or a later one,
\* whose first two runes are the same adornment character: by the time the
\* cursor is on the second of them Section is entered, and it is entered on
\* this rule for no other line.
C25_SectionOnPair ==
    [][LexStart =>
          /\ (pc' = "lexSection" /\ ~AtEndOfLine)
                => \E b \in LineStarts : PairAt(b) /\ pos \in {b, b + 1}
          /\ (\E b \in LineStarts : PairAt(b) /\ pos = b + 1)
                => pc' = "lexSection"]_vars

\* C26: Start, with the cursor on an end-of-line character that an
\* adornment character follows, goes to Section with the text read before
\* the end-of-line still pending, for Section to emit it as the Title.
C26_SectionAtEndOfLine ==
    [][(LexStart /\ AtEndOfLine /\ AdornmentFollows /\ pos > start) =>
          /\ pc' = "lexSection"
          /\ start' = start
          /\ pos' = pos
          /\ emitted' = emitted]_vars

\* C27: Start, at an end-of-line that no adornment follows, emits exactly
\* one Paragraph with the text from the last emission boundary up to the
\* end-of-line when text is pending and no item when none is; either way
\* exactly the one end-of-line character is skipped, so that the character
\* after it is the next one examined.
C27_EndOfLineFlush ==
    [][ /\ (LexStart /\ AtEndOfLine /\ ~AdornmentFollows /\ pos > start) =>
              /\ pc' = "emit"
              /\ Len(emitted') = Len(emitted) + 1
              /\ emitted'[Len(emitted')].ElementType = "itemParagraph"
              /\ emitted'[Len(emitted')].Value = SubSeq(input, start + 1, pos)
        /\ (LexStart /\ AtEndOfLine /\ ~AdornmentFollows /\ pos = start
              /\ pos + 1 < Len(input)) =>
              /\ emitted' = emitted
              /\ pc' = "lexStart"
              /\ pos' = pos + 1
        /\ (EmitReturn /\ ret = "startIgnore" /\ pos + 1 < Len(input)) =>
              /\ emitted' = emitted
              /\ pc' = "lexStart"
              /\ pos' = pos + 1 ]_vars

\* the offset at which the item before item k ends, 0 for the first item
PrevEnd(k) ==
    IF k = 1 THEN 0
    ELSE emitted[k - 1].Position + Len(emitted[k - 1].Value)

\* C28: at the end of a non-empty input Start emits a Paragraph for the
\* pending text if and only if there is some, and EOF is the very next
\* item: EOF is the last item, it is at the end of the input, the item
\* before it is the flushed Paragraph when it reaches the end of the input,
\* and otherwise nothing but the skipped end-of-line lies between them.
C28_FlushThenEOF ==
    /\ \A k \in 1..Len(emitted) :
         (emitted[k].ElementType = "itemEOF" /\ input # <<>>) =>
           /\ k = Len(emitted)
           /\ emitted[k].Position = Len(input)
           /\ \A i \in (PrevEnd(k) + 1)..Len(input) : isEndOfLine(input[i])
           /\ (k > 1 /\ PrevEnd(k) = Len(input)) =>
                 /\ emitted[k - 1].ElementType = "itemParagraph"
                 /\ emitted[k - 1].Value # <<>>
    /\ (pc = "emit" /\ ret = "startEOF") =>
          /\ emitted[Len(emitted)].ElementType = "itemParagraph"
          /\ emitted[Len(emitted)].Value # <<>>
          /\ pos = Len(input)
    /\ (pc = "done" /\ input # <<>>) =>
          emitted[Len(emitted)].ElementType = "itemEOF"

C28_Witness ==
    /\ pc = "done"
    /\ Len(emitted) >= 3
    /\ emitted[Len(emitted)].ElementType = "itemEOF"
    /\ emitted[Len(emitted) - 1].ElementType = "itemParagraph"
    /\ PrevEnd(Len(emitted)) = Len(input)

\* C29: the text of every SectionAdornment item is not empty and is one
\* character of the adornment set repeated; a line with any other character
\* in it is never emitted as a SectionAdornment.
C29_AdornmentText ==
    \A k \in 1..Len(emitted) :
        emitted[k].ElementType = "itemSectionAdornment" =>
            IsAdornmentLine(emitted[k].Value)

\* C30: the EOF item always carries the empty text, for the empty input and
\* for every other input that reaches EOF.
C30_EOFTextEmpty ==
    \A k \in 1..Len(emitted) :
        emitted[k].ElementType = "itemEOF" => emitted[k].Value = <<>>

C30_Witness ==
    /\ pc = "done"
    /\ input # <<>>
    /\ Len(emitted) = 2
    /\ emitted[1].ElementType = "itemParagraph"
    /\ emitted[1].Value = input
    /\ emitted[2].ElementType = "itemEOF"
    /\ emitted[2].Value = <<>>

\* the offset at which item k ends
ItemEnd(k) == emitted[k].Position + Len(emitted[k].Value)

\* the items whose text holds the byte at offset i - 1
Covering(i) ==
    {k \in 1..Len(emitted) : emitted[k].Position < i /\ i <= ItemEnd(k)}

\* C31: no input is lost or reported twice: the byte ranges
\* [Position, Position + len(text)) of the items are disjoint and increase in
\* emission order, each item's text is the input at its range, and in a run
\* that has reached EOF every byte of the input is in exactly one item's
\* text or is an end-of-line character that ignore() skipped.
C31_NoLossNoDuplicate ==
    /\ \A k \in 1..Len(emitted) :
          /\ emitted[k].Position >= 0
          /\ ItemEnd(k) <= Len(input)
          /\ emitted[k].Value =
                SubSeq(input, emitted[k].Position + 1, ItemEnd(k))
          /\ k > 1 => ItemEnd(k - 1) <= emitted[k].Position
    /\ pc = "done" =>
          \A i \in 1..Len(input) :
              \/ Cardinality(Covering(i)) = 1
              \/ Covering(i) = {} /\ isEndOfLine(input[i])

C31_Witness ==
    /\ pc = "done"
    /\ Len(emitted) >= 3
    /\ \E i \in 1..Len(input) : Covering(i) = {}
    /\ \E i \in 1..Len(input) : Covering(i) = {2}

\* C32: the text of every Paragraph item is not empty and has no
\* end-of-line character ('\n' or '\r') in it, for every input, those with
\* consecutive blank lines included.
C32_ParagraphText ==
    \A k \in 1..Len(emitted) :
        emitted[k].ElementType = "itemParagraph" =>
            /\ emitted[k].Value # <<>>
            /\ \A i \in 1..Len(emitted[k].Value) :
                  ~isEndOfLine(emitted[k].Value[i])

---------------------------------------------------------------------------
(* A consumer that goes on calling nextItem after the terminal item.       *)

\* nextItem() called again by a consumer that has had EOF or Error
CallAgain ==
    /\ cpc = "finished"
    /\ cpc' = "call"
    /\ UNCHANGED <<input, pos, start, width, line, lastPos, pc, ret, offer,
                   buf, emitted, hand, received, sect, last>>

NextLate == Producer \/ Consumer \/ CallAgain

LateSpec ==
    /\ InitOn(LiveInputs)
    /\ [][NextLate]_vars
    /\ WF_vars(Producer)

\* nextItem has returned a terminal item
TerminalReceived ==
    \E k \in 1..Len(received) : received[k].ElementType \in TerminalTypes

\* C33: once the consumer has received EOF the producer is over, run()
\* returns and nothing closes the channel: the channel holds no item and no
\* sender, no item is sent any more, and a further nextItem() call stays
\* blocked in its receive and returns no item.
C33_BlocksAfterEOF ==
    /\ [](TerminalReceived =>
             /\ offer = <<>> /\ buf = <<>>
             /\ pc = "done" \/ (pc = "emit" /\ ret = "startNil"))
    /\ [][TerminalReceived =>
             /\ emitted' = emitted
             /\ received' = received
             /\ hand' = <<>>
             /\ cpc = "call" => cpc' = "call"]_vars
    /\ (TerminalReceived ~> pc = "done")

C33_Witness ==
    /\ TerminalReceived
    /\ cpc = "call"
    /\ pc = "done"
    /\ Len(received) >= 2

\* C34: the item stream is a function of the input alone: however the steps
\* of producer and consumer interleave and however long the consumer waits,
\* the items delivered (type, position, line, text) are the first items of
\* the one sequence run() alone gives for the input, and all of it once the
\* consumer has the terminal item.
C34_StreamIsFunctionOfInput ==
    /\ IsPrefix(Delivered, RunAlone)
    /\ IsPrefix(emitted, RunAlone)
    /\ cpc = "finished" => received = RunAlone

C34_Witness ==
    /\ cpc = "finished"
    /\ Len(received) >= 3
    /\ received = RunAlone
    /\ received[1].ElementType = "itemSectionAdornment"
    /\ lastPos = Len(input)

===========================================================================
